---- MODULE Spec2Model ----
(***************************************************************************)
(* A model of the allhands update engine: scripts/allhands/patch.py (the   *)
(* overlay patch header, generation, application and storage) and          *)
(* scripts/allhands/update.py (cmd_update, the update of a target          *)
(* repository from the allhands source repository).                        *)
(*                                                                         *)
(* Texts are sequences of characters.  A character of a patch text is a    *)
(* record [c |-> "x"]; the unified diff that the diff tool prints for one  *)
(* file is kept as one token [c |-> "HUNK", path, old, new] (standing for  *)
(* the lines "--- a/path", "+++ b/path", "@@ ... @@" and the changed       *)
(* lines, none of which starts with '#'), followed by a line break.  The   *)
(* bytes of a managed file are a sequence of one-character strings.        *)
(***************************************************************************)
EXTENDS Naturals, Sequences, FiniteSets, TLC

----------------------------------------------------------------------------
(* Characters and strings                                                  *)

Ch(s) == [c |-> s]

\* The text whose characters are the one-character strings of seq.
Str(seq) == [i \in 1..Len(seq) |-> Ch(seq[i])]

NL == Ch("\n")

HexDigits == {"0", "1", "2", "3", "4", "5", "6", "7", "8", "9",
              "a", "b", "c", "d", "e", "f"}

\* The character class [a-f0-9] of PatchHeader.parse.
IsHex(ch) == ch.c \in HexDigits

\* The regular expression's dot: any character but a line break.
IsDot(ch) == ch # NL

\* Membership in a character class of the two regular expressions of
\* PatchHeader.parse: "hex" is [a-f0-9], "dot" is the dot.
InClass(ch, class) == IF class = "hex" THEN IsHex(ch) ELSE IsDot(ch)

\* What str.strip() removes.
IsSpace(ch) == ch.c \in {" ", "\n", "\r", "\t"}

\* not text.strip()
IsBlank(text) == \A i \in 1..Len(text) : IsSpace(text[i])

\* text[:n]
Take(text, n) == SubSeq(text, 1, IF Len(text) < n THEN Len(text) ELSE n)

SetMin(S) == CHOOSE m \in S : \A k \in S : m <= k

\* The positions where the MULTILINE anchor ^ matches before a character.
LineStarts(text) == {i \in 1..Len(text) : i = 1 \/ text[i - 1] = NL}

HasPrefixAt(text, i, pre) ==
    /\ i + Len(pre) - 1 <= Len(text)
    /\ \A k \in 1..Len(pre) : text[i + k - 1] = pre[k]

\* The end of the longest run of characters of the class that starts at
\* position i (i - 1 when text[i] does not satisfy it): a greedy + or *.
RunEnd(text, i, class) ==
    LET ends == {j \in (i - 1)..Len(text) :
                     \A k \in i..j : InClass(text[k], class)}
    IN  CHOOSE j \in ends : \A k \in ends : k <= j

----------------------------------------------------------------------------
(* PatchHeader                                                             *)

BASE_PREFIX == Str(<<"#", " ", "c", "l", "a", "u", "d", "e", "-", "a", "l", "l",
                     "-", "h", "a", "n", "d", "s", " ", "b", "a", "s", "e", ":",
                     " ">>)

GEN_PREFIX == Str(<<"#", " ", "g", "e", "n", "e", "r", "a", "t", "e", "d", ":",
                    " ">>)

PatchHeader(base_commit, generated) ==
    [base_commit |-> base_commit, generated |-> generated]

\* parse returning None
NoHeader == [none |-> TRUE]

\* re.search(r"^# claude-all-hands base: ([a-f0-9]+)", content, re.MULTILINE):
\* the positions where the expression matches.
BaseMatches(content) ==
    {i \in LineStarts(content) :
        /\ HasPrefixAt(content, i, BASE_PREFIX)
        /\ RunEnd(content, i + Len(BASE_PREFIX), "hex") >= i + Len(BASE_PREFIX)}

\* re.search(r"^# generated: (.+)$", content, re.MULTILINE): the greedy .+
\* runs to the end of the line, where $ matches.
GenMatches(content) ==
    {i \in LineStarts(content) :
        /\ HasPrefixAt(content, i, GEN_PREFIX)
        /\ RunEnd(content, i + Len(GEN_PREFIX), "dot") >= i + Len(GEN_PREFIX)}

\* The group of the first match at a position of Matches.
Group1(content, Matches, pre, class) ==
    LET i == SetMin(Matches)
    IN  SubSeq(content, i + Len(pre), RunEnd(content, i + Len(pre), class))

to_string(h) ==
    BASE_PREFIX \o h.base_commit \o <<NL>> \o GEN_PREFIX \o h.generated \o <<NL, NL>>

\* A parse that never reads the generated line.
parse_no_generated(content) ==
    IF BaseMatches(content) # {}
    THEN PatchHeader(
             Group1(content, BaseMatches(content), BASE_PREFIX, "hex"), <<>>)
    ELSE NoHeader

parse(content) ==
    IF BaseMatches(content) # {}
    THEN PatchHeader(
             Group1(content, BaseMatches(content), BASE_PREFIX, "hex"),
             IF GenMatches(content) # {}
             THEN Group1(content, GenMatches(content), GEN_PREFIX, "dot")
             ELSE <<>>)
    ELSE NoHeader

----------------------------------------------------------------------------
(* Files and trees                                                         *)

\* A tree is a function from the paths of its files to their bytes; a path
\* outside its domain does not exist.
Exists(tree, path) == path \in DOMAIN tree

WriteFile(tree, path, bytes) ==
    [q \in DOMAIN tree \cup {path} |-> IF q = path THEN bytes ELSE tree[q]]

Unlink(tree, path) == [q \in DOMAIN tree \ {path} |-> tree[q]]

\* Path.read_text(): every "\r\n" and every lone "\r" is read as "\n"
\* (universal newlines); read_bytes() is the identity on the stored bytes.
RECURSIVE universal_newlines(_)
universal_newlines(bytes) ==
    IF bytes = <<>> THEN <<>>
    ELSE IF Head(bytes) = "\r"
         THEN <<"\n">> \o universal_newlines(
                  IF Len(bytes) > 1 /\ bytes[2] = "\n"
                  THEN Tail(Tail(bytes)) ELSE Tail(bytes))
         ELSE <<Head(bytes)>> \o universal_newlines(Tail(bytes))

read_text(tree, path) == universal_newlines(tree[path])

\* The same reading of a patch text (the overlay artifact read with
\* read_text, the output of a tool captured with text=True): the line ends
\* of a diff's lines are those of the sides of its token.
RECURSIVE text_newlines(_)
text_newlines(text) ==
    IF text = <<>> THEN <<>>
    ELSE IF Head(text) = Ch("\r")
         THEN <<NL>> \o text_newlines(
                  IF Len(text) > 1 /\ text[2] = NL
                  THEN Tail(Tail(text)) ELSE Tail(text))
         ELSE IF Head(text).c = "HUNK"
         THEN <<[Head(text) EXCEPT !.old = universal_newlines(@),
                                   !.new = universal_newlines(@)]>>
              \o text_newlines(Tail(text))
         ELSE <<Head(text)>> \o text_newlines(Tail(text))

\* A read_bytes that reads line ends as read_text does.
read_bytes_as_text(tree, path) == universal_newlines(tree[path])

read_bytes(tree, path) == tree[path]

\* The diff tool takes a file holding a NUL byte for a binary file.
IsBinary(bytes) == \E i \in 1..Len(bytes) : bytes[i] = "NUL"

----------------------------------------------------------------------------
(* The external tools                                                      *)

\* The unified diff of one file, as a token of the patch text.
Hunk(path, old, new) == [c |-> "HUNK", path |-> path, old |-> old, new |-> new]

\* The line "Binary files a/<path> and b/<path> differ" (without its line
\* break), as a token of the patch text.
BinaryNote(path) == [c |-> "BINARY", path |-> path]

IsHunk(ch) == ch.c = "HUNK"

\* diff -u --label a/<path> --label b/<path> - <target_file>, with
\* source_content on its standard input.  trouble: the tool could not do its
\* work (exit code 2).  Exit code 0: no difference; 1: differences, printed.
DiffTool(path, source_content, target_bytes, trouble) ==
    IF trouble THEN [returncode |-> 2, stdout |-> <<>>]
    ELSE IF source_content = target_bytes THEN [returncode |-> 0, stdout |-> <<>>]
    ELSE IF IsBinary(source_content) \/ IsBinary(target_bytes)
         THEN [returncode |-> 1, stdout |-> <<BinaryNote(path), NL>>]
         ELSE [returncode |-> 1,
               stdout |-> <<Hunk(path, source_content, target_bytes), NL>>]

\* Whether the patch tool can apply hunk h to the tree: the file holds the
\* hunk's old side (an empty old side creates the file).  A file that holds
\* anything else, the new side included (--forward), rejects the hunk.
HunkApplies(tree, h) ==
    IF h.old = <<>> THEN ~Exists(tree, h.path)
    ELSE Exists(tree, h.path) /\ tree[h.path] = h.old

\* The reject file the patch tool leaves beside a file whose hunk it could
\* not apply.
RejPath(path) == path \o ".rej"

RejBytes == <<"r", "e", "j">>

\* The tree after the hunks are applied in order: a hunk
\* that does not apply is skipped, and leaves a reject file if its file
\* exists.
RECURSIVE ApplyHunks(_, _)
ApplyHunks(tree, hunks) ==
    IF hunks = <<>> THEN tree
    ELSE LET h == Head(hunks)
             next == IF HunkApplies(tree, h) THEN WriteFile(tree, h.path, h.new)
                     ELSE IF Exists(tree, h.path)
                          THEN WriteFile(tree, RejPath(h.path), RejBytes)
                          ELSE tree
         IN  ApplyHunks(next, Tail(hunks))

\* The number of hunks of a real application that do not apply.
RECURSIVE CountFailed(_, _)
CountFailed(tree, hunks) ==
    IF hunks = <<>> THEN 0
    ELSE LET h == Head(hunks)
         IN  IF HunkApplies(tree, h)
             THEN CountFailed(WriteFile(tree, h.path, h.new), Tail(hunks))
             ELSE 1 + CountFailed(tree, Tail(hunks))

\* A patch tool that ignores --dry-run.
PatchToolNoDryRun(tree, patch_body, dry_run) ==
    LET hunks == SelectSeq(patch_body, IsHunk)
    IN  IF hunks = <<>> THEN [returncode |-> 2, tree |-> tree]
        ELSE [returncode |-> IF CountFailed(tree, hunks) = 0 THEN 0 ELSE 1,
              tree |-> ApplyHunks(tree, hunks)]

\* patch -p1 --forward [--dry-run] in the target root, with patch_body on its
\* standard input.  Text that is no diff is skipped as garbage, and a body of
\* garbage only is an error (exit code 2).  A dry run checks every hunk
\* against the files as they are and changes nothing.
PatchTool(tree, patch_body, dry_run) ==
    LET hunks == SelectSeq(patch_body, IsHunk)
    IN  IF hunks = <<>> THEN [returncode |-> 2, tree |-> tree]
        ELSE IF dry_run
        THEN [returncode |->
                  IF \A i \in 1..Len(hunks) : HunkApplies(tree, hunks[i])
                  THEN 0 ELSE 1,
              tree |-> tree]
        ELSE [returncode |-> IF CountFailed(tree, hunks) = 0 THEN 0 ELSE 1,
              tree |-> ApplyHunks(tree, hunks)]

----------------------------------------------------------------------------
(* patch.py                                                                *)

\* str.strip()
Strip(text) ==
    LET keep == {i \in 1..Len(text) : ~IsSpace(text[i])}
    IN  IF keep = {} THEN <<>>
        ELSE SubSeq(text, SetMin(keep), CHOOSE j \in keep : \A k \in keep : k <= j)

\* str.split("\n")
RECURSIVE Split(_)
Split(text) ==
    LET breaks == {i \in 1..Len(text) : text[i] = NL}
    IN  IF breaks = {} THEN <<text>>
        ELSE <<SubSeq(text, 1, SetMin(breaks) - 1)>>
             \o Split(SubSeq(text, SetMin(breaks) + 1, Len(text)))

\* "\n".join(parts)
RECURSIVE Join(_)
Join(parts) ==
    IF parts = <<>> THEN <<>>
    ELSE IF Len(parts) = 1 THEN parts[1]
    ELSE parts[1] \o <<NL>> \o Join(Tail(parts))

\* The length of the short revision: stdout.strip()[:7].
ShortLen == 7

\* A get_current_commit that returns the whole revision.
get_current_commit_whole(git) ==
    IF git.returncode # 0 THEN [raised |-> TRUE, value |-> <<>>]
    ELSE [raised |-> FALSE, value |-> Strip(git.stdout)]

\* git is the finished `git rev-parse HEAD` process of the source repository.
get_current_commit(git) ==
    IF git.returncode # 0 THEN [raised |-> TRUE, value |-> <<>>]
    ELSE [raised |-> FALSE, value |-> Take(Strip(git.stdout), ShortLen)]

\* The loop of generate_patch over files (a sequence of paths): the list
\* `patches`.  trouble is the set of paths on which the diff tool fails.
RECURSIVE Patches(_, _, _, _)
Patches(allhands, target_tree, files, trouble) ==
    IF files = <<>> THEN <<>>
    ELSE LET file_path == Head(files)
             rest == Patches(allhands, target_tree, Tail(files), trouble)
         IN  IF ~Exists(target_tree, file_path) THEN rest
             ELSE LET source_content ==
                          IF Exists(allhands, file_path)
                          THEN read_text(allhands, file_path) ELSE <<>>
                      target_content == read_text(target_tree, file_path)
                      result == DiffTool(file_path, source_content,
                                         read_bytes(target_tree, file_path),
                                         file_path \in trouble)
                  IN  IF source_content = target_content THEN rest
                      ELSE IF result.returncode = 1
                           THEN <<text_newlines(result.stdout)>> \o rest
                           ELSE rest

\* A generate_patch that returns the header alone when there is no diff.
generate_patch_header_alone(allhands, target_tree, files, git, today, trouble) ==
    LET base_commit == get_current_commit(git)
        header == PatchHeader(base_commit.value, today)
        patches == Patches(allhands, target_tree, files, trouble)
    IN  IF base_commit.raised THEN [raised |-> TRUE, text |-> <<>>]
        ELSE [raised |-> FALSE, text |-> to_string(header) \o Join(patches)]

\* generate_patch(allhands_root, target_root, files); today is
\* datetime.now().strftime("%Y-%m-%d").  The result is the returned text, or
\* the RuntimeError of get_current_commit.
generate_patch(allhands, target_tree, files, git, today, trouble) ==
    LET base_commit == get_current_commit(git)
        header == PatchHeader(base_commit.value, today)
        patches == Patches(allhands, target_tree, files, trouble)
    IN  IF base_commit.raised THEN [raised |-> TRUE, text |-> <<>>]
        ELSE IF patches = <<>> THEN [raised |-> FALSE, text |-> <<>>]
        ELSE [raised |-> FALSE, text |-> to_string(header) \o Join(patches)]

StartsWithHash(line) == Len(line) > 0 /\ line[1] = Ch("#")

NotComment(line) == ~StartsWithHash(line)

\* An apply_patch that hands a body of comments to the patch tool.
apply_patch_no_comment_check(target_tree, patch_content, dry_run) ==
    LET result == PatchTool(target_tree, patch_content, dry_run)
    IN  IF IsBlank(patch_content)
        THEN [ok |-> TRUE, message |-> "No patch to apply", tool |-> FALSE,
              tree |-> target_tree]
        ELSE IF result.returncode = 0
        THEN [ok |-> TRUE, message |-> "stdout", tool |-> TRUE,
              tree |-> result.tree]
        ELSE [ok |-> FALSE, message |-> "Patch failed", tool |-> TRUE,
              tree |-> result.tree]

\* apply_patch(target_root, patch_content, dry_run): (success, message), whether
\* the patch tool was run, and the target tree it leaves.
apply_patch(target_tree, patch_content, dry_run) ==
    LET lines == Split(patch_content)
        patch_body == Join(SelectSeq(lines, NotComment))
        result == PatchTool(target_tree, patch_body, dry_run)
    IN  IF IsBlank(patch_content)
        THEN [ok |-> TRUE, message |-> "No patch to apply", tool |-> FALSE,
              tree |-> target_tree]
        ELSE IF IsBlank(patch_body)
        THEN [ok |-> TRUE, message |-> "No patch to apply (comments only)",
              tool |-> FALSE, tree |-> target_tree]
        ELSE IF result.returncode = 0
        THEN [ok |-> TRUE, message |-> "stdout", tool |-> TRUE,
              tree |-> result.tree]
        ELSE [ok |-> FALSE, message |-> "Patch failed", tool |-> TRUE,
              tree |-> result.tree]

\* The overlay artifact .allhands.patch of the target repository: whether the
\* file exists, and its text.
NoPatchFile == [exists |-> FALSE, text |-> <<>>]

read_patch_file(file) == IF file.exists THEN text_newlines(file.text) ELSE <<>>

\* A write_patch_file that keeps the artifact when the text is blank.
write_patch_file_keeps(file, content) ==
    IF ~IsBlank(content) THEN [exists |-> TRUE, text |-> content] ELSE file

write_patch_file(file, content) ==
    IF ~IsBlank(content) THEN [exists |-> TRUE, text |-> content]
    ELSE IF file.exists THEN NoPatchFile
    ELSE file

\* None when there is no header to read.
NoCommit == <<Ch("None")>>

get_patch_base_commit(file) ==
    LET content == read_patch_file(file)
    IN  IF content # <<>> /\ parse(content) # NoHeader
        THEN parse(content).base_commit
        ELSE NoCommit

----------------------------------------------------------------------------
(* update.py: the phases of cmd_update                                     *)

\* get_staged_files: staged_proc is the finished `git diff --cached
\* --name-only` process of the target repository, its output the set of the
\* names it lists.  A failed process reads as nothing staged.
get_staged_files(staged_proc) ==
    IF staged_proc.returncode # 0 THEN {} ELSE staged_proc.names

\* A conflict check that finds nothing.
ConflictsNone(staged, managed_paths) == {}

\* conflicts = staged & managed_paths
Conflicts(staged, managed_paths) == staged \cap managed_paths

\* Every path of the model, in sorted order.
PathOrder == <<"a", "b">>

Paths == {PathOrder[i] : i \in 1..Len(PathOrder)}

\* sorted(S), for a set S of paths
Sorted(S) == SelectSeq(PathOrder, LAMBDA path : path \in S)

\* The loop `for rel_path in sorted(distributable)` of the file refresh, over
\* the paths still to visit: the tree it leaves, the counters and the list
\* deleted_in_source.
RECURSIVE RefreshLoop(_, _, _)
RefreshLoop(allhands, todo, acc) ==
    IF todo = <<>> THEN acc
    ELSE LET rel_path == Head(todo)
             next ==
                 IF ~Exists(allhands, rel_path)
                 THEN IF Exists(acc.tree, rel_path)
                      THEN [acc EXCEPT !.deleted_in_source =
                                           Append(@, rel_path)]
                      ELSE acc
                 ELSE IF Exists(acc.tree, rel_path)
                 THEN IF read_bytes(allhands, rel_path)
                             # read_bytes(acc.tree, rel_path)
                      THEN [acc EXCEPT
                                !.tree = WriteFile(@, rel_path,
                                                   allhands[rel_path]),
                                !.updated = @ + 1]
                      ELSE acc
                 ELSE [acc EXCEPT
                           !.tree = WriteFile(@, rel_path, allhands[rel_path]),
                           !.created = @ + 1]
         IN  RefreshLoop(allhands, Tail(todo), next)

\* A file refresh that visits every path, managed or not.
FileRefreshEveryPath(allhands, target_tree, distributable) ==
    RefreshLoop(allhands, PathOrder,
                [tree |-> target_tree, updated |-> 0, created |-> 0,
                 deleted_in_source |-> <<>>])

FileRefresh(allhands, target_tree, distributable) ==
    RefreshLoop(allhands, Sorted(distributable),
                [tree |-> target_tree, updated |-> 0, created |-> 0,
                 deleted_in_source |-> <<>>])

\* The loop that unlinks the files of deleted_in_source that still exist.
RECURSIVE DeleteLoop(_, _)
DeleteLoop(target_tree, todo) ==
    IF todo = <<>> THEN target_tree
    ELSE DeleteLoop(IF Exists(target_tree, Head(todo))
                    THEN Unlink(target_tree, Head(todo)) ELSE target_tree,
                    Tail(todo))

\* str.lower(), on the letters of the answers of the model
Lower(text) ==
    [i \in 1..Len(text) |-> IF text[i] = Ch("Y") THEN Ch("y")
                            ELSE IF text[i] = Ch("N") THEN Ch("n")
                            ELSE text[i]]

\* A confirmation that takes every answer for a yes.
ConfirmedAlways(yes, answer) == TRUE

\* if auto_yes or input(...).strip().lower() == "y"
Confirmed(yes, answer) == yes \/ Lower(Strip(answer)) = <<Ch("y")>>

\* The managed paths that exist in both trees with different bytes: the set
\* of the list changed_files.
ChangedFiles(allhands, target_tree, distributable) ==
    {rel_path \in distributable :
        /\ Exists(target_tree, rel_path) /\ Exists(allhands, rel_path)
        /\ read_bytes(allhands, rel_path) # read_bytes(target_tree, rel_path)}

\* The orders in which a loop over the set S can visit it.
Orders(S) ==
    {seq \in [1..Cardinality(S) -> S] : \A i, j \in DOMAIN seq :
                                            i # j => seq[i] # seq[j]}

----------------------------------------------------------------------------
(* The state                                                               *)

VARIABLES
    source,      \* the allhands source tree
    managed,     \* manifest.get_distributable_files(), as a set of paths
    target,      \* the target repository's working tree
    patch_file,  \* the target's .allhands.patch
    run,         \* per cmd_update call: its position and its local variables
    seen,        \* per cmd_update call: what the call met, for the properties
    call,        \* the direct call of a function of patch.py, and its arguments
    out          \* what the direct call returned

vars == <<source, managed, target, patch_file, run, seen, call, out>>

\* The number of cmd_update calls of a behaviour.
MaxRuns == 2

Runs == 1..MaxRuns

\* File contents: two one-line texts, the first one with CRLF line ends, and
\* the first one with a NUL byte in it.
V1 == <<"x", "\n">>
V2 == <<"y", "\n">>
V1_CRLF == <<"x", "\r", "\n">>
V1_NUL == <<"x", "NUL", "\n">>

FileBytes == {V1, V2, V1_CRLF, V1_NUL}

\* Every tree with files at some of the paths of S, their bytes in B.
Trees(S, B) == UNION {[D -> B] : D \in SUBSET S}

\* The source repository's HEAD, as `git rev-parse HEAD` prints it.
HEAD_SHA == Str(<<"9", "b", "3", "8", "0", "8", "f", "2", "1">>)

GitResults == {[returncode |-> 0, stdout |-> HEAD_SHA \o <<NL>>],
               [returncode |-> 128, stdout |-> <<>>]}

\* The dates of the days on which updates run, as strftime("%Y-%m-%d")
\* prints them: the n-th day of a month.
Digits == <<"1", "2", "3", "4", "5", "6", "7", "8", "9">>

Date(n) == Str(<<"2", "0", "2", "6", "-", "1", "1", "-", "0", Digits[n]>>)

DATE_1 == Date(1)

\* The r-th call runs on the day of the call before it or on a later day.
Dates(r) == {Date(n) : n \in 1..r}

\* The header of the overlay a target holds from an earlier update.
OLD_BASE == Str(<<"a", "b", "c", "1", "2", "3", "4">>)

\* A patch text as generate_patch builds it from the hunks of a sequence.
Document(header, hunks) ==
    to_string(header) \o Join([i \in 1..Len(hunks) |-> <<hunks[i], NL>>])

Idle == [pc |-> "idle", existing_patch |-> <<>>,
         deleted_in_source |-> <<>>, updated |-> 0, created |-> 0,
         new_patch |-> <<>>, returned |-> <<>>]

\* No confirmation was asked for: there was nothing to delete.
NotAsked == [by |-> "none", answer |-> <<>>]

EmptyTree == [path \in {} |-> <<>>]

Unseen == [pre_source |-> EmptyTree,
           pre_target |-> EmptyTree, pre_patch |-> NoPatchFile, conflict |-> FALSE,
           rev_failed |-> FALSE, today |-> <<>>, trouble |-> {},
           overlapped |-> FALSE, phases |-> <<>>, confirm |-> NotAsked, dry_run |-> "none",
           applied |-> "none", regenerated |-> FALSE]

Ended(r) == run[r].pc \in {"done", "failed", "raised"}

\* Call r has started and has not ended.
Running(r) == run[r].pc # "idle" /\ ~Ended(r)

----------------------------------------------------------------------------
(* cmd_update, phase by phase                                              *)

\* Lines 48-65: the call and its precondition checks.  git_dir: the target
\* holds a .git; manifest_file: the source holds .allhands-manifest.json.
Start(r, git_dir, manifest_file) ==
    /\ run[r].pc = "idle"
    /\ run' = [run EXCEPT
                   ![r] = IF git_dir /\ manifest_file
                          THEN [@ EXCEPT !.pc = "precondition_checked"]
                          ELSE [@ EXCEPT !.pc = "failed", !.returned = <<1>>]]
    /\ seen' = [seen EXCEPT
                    ![r] = [@ EXCEPT !.pre_source = source,
                                     !.pre_target = target,
                                     !.pre_patch = patch_file,
                                     !.overlapped =
                                         \E q \in Runs \ {r} : Running(q),
                                     !.phases = Append(@, "precondition_check")]]
    /\ UNCHANGED <<source, managed, target, patch_file, call, out>>

\* Lines 67-86: the staged-file conflict check, then the read of the
\* existing patch.
ConflictCheck(r, staged_proc) ==
    /\ run[r].pc = "precondition_checked"
    /\ LET staged == get_staged_files(staged_proc)
           conflicts == Conflicts(staged, managed)
       IN  /\ run' = [run EXCEPT
                          ![r] = IF conflicts # {}
                                 THEN [@ EXCEPT !.pc = "failed",
                                                !.returned = <<1>>]
                                 ELSE [@ EXCEPT
                                           !.pc = "conflict_checked",
                                           !.existing_patch =
                                               read_patch_file(patch_file)]]
           /\ seen' = [seen EXCEPT
                           ![r] = [@ EXCEPT
                                       !.phases = Append(@, "conflict_check"),
                                       !.conflict =
                                           staged_proc.returncode = 0
                                           /\ staged_proc.names \cap managed # {}]]
    /\ UNCHANGED <<source, managed, target, patch_file, call, out>>

\* Lines 88-111: copy the updated files.
RefreshFiles(r) ==
    /\ run[r].pc = "conflict_checked"
    /\ LET done == FileRefresh(source, target, managed)
       IN  /\ target' = done.tree
           /\ run' = [run EXCEPT
                          ![r] = [@ EXCEPT
                                      !.pc = "files_refreshed",
                                      !.updated = done.updated,
                                      !.created = done.created,
                                      !.deleted_in_source =
                                          done.deleted_in_source]]
    /\ seen' = [seen EXCEPT
                    ![r] = [@ EXCEPT !.phases = Append(@, "file_refresh")]]
    /\ UNCHANGED <<source, managed, patch_file, call, out>>

\* Lines 113-125: handle the files deleted in the source.  auto_yes is the
\* parameter of cmd_update, read here only; answer is what the user types at
\* the prompt, read only when auto_yes is not set.  seen[r].confirm keeps
\* what was asked: nothing, the flag, or the answer typed.
ResolveDeletions(r, auto_yes, answer) ==
    /\ run[r].pc = "files_refreshed"
    /\ target' = IF run[r].deleted_in_source # <<>>
                    /\ Confirmed(auto_yes, answer)
                 THEN DeleteLoop(target, run[r].deleted_in_source)
                 ELSE target
    /\ run' = [run EXCEPT ![r] = [@ EXCEPT !.pc = "deletions_resolved"]]
    /\ seen' = [seen EXCEPT
                    ![r] = [@ EXCEPT
                                !.phases = Append(@, "deletion_resolution"),
                                !.confirm =
                                    IF run[r].deleted_in_source = <<>>
                                    THEN NotAsked
                                    ELSE IF auto_yes
                                    THEN [by |-> "auto_yes", answer |-> <<>>]
                                    ELSE [by |-> "input", answer |-> answer]]]
    /\ UNCHANGED <<source, managed, patch_file, call, out>>

\* Lines 127-130 and 138-144: the dry run of the existing patch.
DryRunPatch(r) ==
    /\ run[r].pc = "deletions_resolved"
    /\ LET tried == apply_patch(target, run[r].existing_patch, TRUE)
       IN  IF IsBlank(run[r].existing_patch)
           THEN /\ run' = [run EXCEPT ![r] = [@ EXCEPT !.pc = "overlay_reapplied"]]
                /\ UNCHANGED <<seen, target>>
           ELSE IF tried.ok
           THEN /\ run' = [run EXCEPT ![r] = [@ EXCEPT !.pc = "dry_run_passed"]]
                /\ seen' = [seen EXCEPT ![r] = [@ EXCEPT !.dry_run = "ok",
                                                     !.phases = Append(@, "dry_run")]]
                /\ target' = tried.tree
           ELSE /\ run' = [run EXCEPT ![r] = [@ EXCEPT !.pc = "failed",
                                                       !.returned = <<1>>]]
                /\ seen' = [seen EXCEPT ![r] = [@ EXCEPT !.dry_run = "failed",
                                                     !.phases = Append(@, "dry_run")]]
                /\ target' = tried.tree
    /\ UNCHANGED <<source, managed, patch_file, call, out>>

\* Lines 132-137: the application of the existing patch.
ApplyPatch(r) ==
    /\ run[r].pc = "dry_run_passed"
    /\ LET tried == apply_patch(target, run[r].existing_patch, FALSE)
       IN  /\ target' = tried.tree
           /\ seen' = [seen EXCEPT
                           ![r] = [@ EXCEPT
                                       !.phases = Append(@, "apply"),
                                       !.applied =
                                           IF tried.ok THEN "ok" ELSE "failed"]]
    /\ run' = [run EXCEPT ![r] = [@ EXCEPT !.pc = "overlay_reapplied"]]
    /\ UNCHANGED <<source, managed, patch_file, call, out>>

\* Lines 146-166: regenerate the patch.  order: the order in which the loop
\* over the set distributable meets the changed files; git, today, trouble:
\* as for generate_patch.
RegeneratePatch(r, order, git, today, trouble) ==
    /\ run[r].pc = "overlay_reapplied"
    /\ order \in Orders(ChangedFiles(source, target, managed))
    /\ LET changed_files == order
           new_patch == generate_patch(source, target, changed_files, git,
                                       today, trouble)
       IN  IF changed_files # <<>>
           THEN IF new_patch.raised
                THEN /\ run' = [run EXCEPT ![r] = [@ EXCEPT !.pc = "raised"]]
                     /\ seen' = [seen EXCEPT ![r] = [@ EXCEPT !.rev_failed = TRUE,
                                                              !.phases = Append(@, "regeneration")]]
                     /\ UNCHANGED patch_file
                ELSE /\ patch_file' = write_patch_file(patch_file, new_patch.text)
                     /\ run' = [run EXCEPT ![r] = [@ EXCEPT !.pc = "done",
                                                            !.returned = <<0>>]]
                     /\ seen' = [seen EXCEPT ![r] = [@ EXCEPT !.regenerated = TRUE,
                                                              !.phases = Append(@, "regeneration"),
                                                              !.today = today,
                                                              !.trouble = trouble]]
           ELSE /\ patch_file' = write_patch_file(patch_file, <<>>)
                /\ run' = [run EXCEPT ![r] = [@ EXCEPT !.pc = "done",
                                                       !.returned = <<0>>]]
                /\ seen' = [seen EXCEPT ![r] = [@ EXCEPT !.regenerated = TRUE,
                                                         !.phases = Append(@, "regeneration")]]
    /\ UNCHANGED <<source, managed, target, call, out>>

\* Lines 146-157, for calls that run side by side: the list changed_files
\* and the text of the new patch, computed from the trees as they are now.
GenerateNewPatch(r, order, git, today, trouble) ==
    /\ run[r].pc = "overlay_reapplied"
    /\ order \in Orders(ChangedFiles(source, target, managed))
    /\ LET changed_files == order
           new_patch == generate_patch(source, target, changed_files, git,
                                       today, trouble)
       IN  IF changed_files # <<>> /\ new_patch.raised
           THEN /\ run' = [run EXCEPT ![r] = [@ EXCEPT !.pc = "raised"]]
                /\ seen' = [seen EXCEPT
                                ![r] = [@ EXCEPT
                                            !.rev_failed = TRUE,
                                            !.phases = Append(@, "regeneration")]]
           ELSE /\ run' = [run EXCEPT
                               ![r] = [@ EXCEPT
                                           !.pc = "overlay_generated",
                                           !.new_patch =
                                               IF changed_files # <<>>
                                               THEN new_patch.text ELSE <<>>]]
                /\ seen' = [seen EXCEPT
                                ![r] = [@ EXCEPT
                                            !.phases = Append(@, "regeneration"),
                                            !.today =
                                                IF changed_files # <<>>
                                                THEN today ELSE @,
                                            !.trouble =
                                                IF changed_files # <<>>
                                                THEN trouble ELSE @]]
    /\ UNCHANGED <<source, managed, target, patch_file, call, out>>

\* Lines 158-166, for calls that run side by side: write_patch_file with the
\* text computed before, and return 0.
PersistPatch(r) ==
    /\ run[r].pc = "overlay_generated"
    /\ patch_file' = write_patch_file(patch_file, run[r].new_patch)
    /\ run' = [run EXCEPT ![r] = [@ EXCEPT !.pc = "done", !.returned = <<0>>]]
    /\ seen' = [seen EXCEPT ![r] = [@ EXCEPT !.regenerated = TRUE]]
    /\ UNCHANGED <<source, managed, target, call, out>>

----------------------------------------------------------------------------
(* The update of one target repository, one call after the other           *)

\* What the source holds at a managed path, and what the target holds before
\* the first update.
SourceBytes == {V1, V1_CRLF}
TargetBytes == {V1, V2}

\* The hunks of the overlay the target holds before the first update.
InitHunks ==
    {h \in {Hunk(path, old, new) : path \in Paths, old \in {V1, V2, V1_CRLF},
                                   new \in {V2, V1_NUL}} : h.old # h.new}

\* One hunk, two hunks of different files, or the same hunk twice.
InitHunkLists ==
    {<<h>> : h \in InitHunks}
    \cup {<<h1, h2>> : h1 \in {h \in InitHunks : h.path = PathOrder[1]},
                       h2 \in {h \in InitHunks : h.path # PathOrder[1]}}
    \cup {<<h, h>> : h \in {h \in InitHunks : h.path = PathOrder[1]}}

InitPatchFiles ==
    {NoPatchFile,
     [exists |-> TRUE, text |-> <<NL>>],
     [exists |-> TRUE, text |-> to_string(PatchHeader(OLD_BASE, DATE_1))]}
    \cup {[exists |-> TRUE,
           text |-> Document(PatchHeader(OLD_BASE, DATE_1), hunks)] :
              hunks \in InitHunkLists}

\* The manifest lists the first path, or every path.
ManagedSets == {{PathOrder[1]}, Paths}

\* What the user types at the prompt of the deletions.
Answers == {Str(<<"y">>), Str(<<" ", "Y">>), Str(<<"n">>)}

StagedResults ==
    {[returncode |-> 0, names |-> S] : S \in SUBSET Paths}
    \cup {[returncode |-> 128, names |-> {}]}

NoCall == [op |-> "none"]

Init ==
    /\ source \in Trees(Paths, SourceBytes)
    /\ target \in Trees(Paths, TargetBytes)
    /\ managed \in ManagedSets
    /\ patch_file \in InitPatchFiles
    /\ run = [r \in Runs |-> Idle]
    /\ seen = [r \in Runs |-> Unseen]
    /\ call = NoCall
    /\ out = NoCall

\* A call starts when the call before it has returned 0.
StartNext(r) ==
    /\ \A q \in Runs : q < r => run[q].returned = <<0>>
    /\ \E git_dir, manifest_file \in BOOLEAN : Start(r, git_dir, manifest_file)

Phase(r) ==
    \/ \E staged_proc \in StagedResults : ConflictCheck(r, staged_proc)
    \/ RefreshFiles(r)
    \/ \E auto_yes \in BOOLEAN, answer \in Answers :
           ResolveDeletions(r, auto_yes, answer)
    \/ DryRunPatch(r)
    \/ ApplyPatch(r)
    \/ \E order \in Orders(ChangedFiles(source, target, managed)),
          git \in GitResults, today \in Dates(r),
          trouble \in SUBSET ChangedFiles(source, target, managed) :
           RegeneratePatch(r, order, git, today, trouble)

Next == \E r \in Runs : StartNext(r) \/ Phase(r)

Spec == Init /\ [][Next]_vars

----------------------------------------------------------------------------
(* Updates of one target repository that run side by side                  *)

\* A start that waits until no other call is running.
StartWhenFree(r) ==
    /\ \A q \in Runs : q < r => run[q].pc # "idle"
    /\ \A q \in Runs \ {r} : ~Running(q)
    /\ \E git_dir, manifest_file \in BOOLEAN : Start(r, git_dir, manifest_file)

\* cmd_update takes no lock: a call starts whatever the other calls are
\* doing.  The calls are numbered in the order they start.
StartAnyTime(r) ==
    /\ \A q \in Runs : q < r => run[q].pc # "idle"
    /\ \E git_dir, manifest_file \in BOOLEAN : Start(r, git_dir, manifest_file)

PhaseAnyTime(r) ==
    \/ \E staged_proc \in StagedResults : ConflictCheck(r, staged_proc)
    \/ RefreshFiles(r)
    \/ \E auto_yes \in BOOLEAN, answer \in Answers :
           ResolveDeletions(r, auto_yes, answer)
    \/ DryRunPatch(r)
    \/ ApplyPatch(r)
    \/ \E order \in Orders(ChangedFiles(source, target, managed)),
          git \in GitResults, trouble \in SUBSET ChangedFiles(source, target, managed) :
           GenerateNewPatch(r, order, git, DATE_1, trouble)
    \/ PersistPatch(r)

\* One managed file, customized in the target by the overlay of an earlier
\* update or not at all.
InitConcurrent ==
    /\ source \in Trees({PathOrder[1]}, {V1})
    /\ target \in Trees({PathOrder[1]}, TargetBytes)
    /\ managed = {PathOrder[1]}
    /\ patch_file \in {NoPatchFile,
                        [exists |-> TRUE,
                         text |-> Document(PatchHeader(OLD_BASE, DATE_1),
                                           <<Hunk(PathOrder[1], V1, V2)>>)]}
    /\ run = [r \in Runs |-> Idle]
    /\ seen = [r \in Runs |-> Unseen]
    /\ call = NoCall
    /\ out = NoCall

NextConcurrent == \E r \in Runs : StartAnyTime(r) \/ PhaseAnyTime(r)

SpecConcurrent == InitConcurrent /\ [][NextConcurrent]_vars

----------------------------------------------------------------------------
(* Properties of cmd_update                                                *)

\* No call after call r has started.
LastCall(r) == \A q \in Runs : q > r => run[q].pc = "idle"

\* The target tree after the file refresh of call r.
Refreshed(r) == FileRefresh(source, seen[r].pre_target, managed).tree

\* C1: a call that meets staged paths in the managed set returns 1 and
\* leaves every file of the target tree and the overlay artifact as they
\* were before the call.
C1_ConflictLeavesTargetUntouched ==
    \A r \in Runs :
        seen[r].conflict =>
            /\ run[r].pc = "failed"
            /\ run[r].returned = <<1>>
            /\ target = seen[r].pre_target
            /\ patch_file = seen[r].pre_patch

\* A call has failed on a conflict although its file refresh would have
\* changed the target tree.
C1_Witness ==
    \E r \in Runs :
        /\ seen[r].conflict
        /\ run[r].pc = "failed"
        /\ Refreshed(r) # seen[r].pre_target

\* C2: when the dry run of the existing overlay fails, the call returns 1,
\* the patch is not applied, the overlay is not regenerated and is on disk as
\* before the call, and the target tree is the refreshed tree, with or
\* without the confirmed deletions.
C2_DryRunFailureAborts ==
    \A r \in Runs :
        seen[r].dry_run = "failed" =>
            /\ run[r].pc = "failed"
            /\ run[r].returned = <<1>>
            /\ seen[r].applied = "none"
            /\ ~seen[r].regenerated
            /\ patch_file = seen[r].pre_patch
            /\ target \in {Refreshed(r),
                           DeleteLoop(Refreshed(r), run[r].deleted_in_source)}

\* A dry run has failed after the file refresh changed the target tree.
C2_Witness ==
    \E r \in Runs :
        /\ seen[r].dry_run = "failed"
        /\ ~IsBlank(run[r].existing_patch)
        /\ target # seen[r].pre_target

\* The two calls differ in nothing given to them: the first call left no
\* file for the second to ask about deleting and at most one changed file (so
\* the order of the loop over the managed set is one), the diff tool worked,
\* and both calls ran on the same day.
SameInputs ==
    /\ FileRefresh(source, seen[2].pre_target, managed).deleted_in_source = <<>>
    /\ Cardinality(ChangedFiles(source, seen[2].pre_target, managed)) <= 1
    /\ seen[1].trouble = {} /\ seen[2].trouble = {}
    /\ seen[1].today = <<>> \/ seen[2].today = <<>>
       \/ seen[1].today = seen[2].today

\* C3: a second call, made after a call that returned 0 with nothing
\* changed in between and given the same inputs, leaves every target file
\* and the overlay artifact as the first call left them.
C3_SecondUpdateChangesNothing ==
    (run[1].returned = <<0>> /\ Ended(2) /\ SameInputs) =>
        /\ target = seen[2].pre_target
        /\ patch_file = seen[2].pre_patch

\* C4: after a call that returned 0 the overlay artifact exists exactly when
\* some managed path present in both trees differs in its bytes, and it is
\* never blank.
C4_OverlayExistsIffCustomized ==
    \A r \in Runs :
        (run[r].returned = <<0>> /\ LastCall(r)) =>
            /\ patch_file.exists <=> ChangedFiles(source, target, managed) # {}
            /\ patch_file.exists => ~IsBlank(patch_file.text)

\* C5: every call ends by returning 0 or 1, 0 only after the overlay was
\* regenerated, and 1 when the revision query failed.
C5_ExitContract ==
    \A r \in Runs :
        /\ Ended(r) => run[r].returned \in {<<0>>, <<1>>}
        /\ run[r].returned = <<0>> => seen[r].regenerated
        /\ seen[r].rev_failed => run[r].returned = <<1>>

\* C6: a call whose revision query fails ends as a failure and leaves the
\* target tree and the overlay artifact as they were before the call.
C6_VcsErrorLeavesTargetUntouched ==
    \A r \in Runs :
        seen[r].rev_failed =>
            /\ run[r].returned = <<1>>
            /\ target = seen[r].pre_target
            /\ patch_file = seen[r].pre_patch

----------------------------------------------------------------------------
(* Direct calls of the functions of patch.py                               *)

Quiet ==
    /\ managed = Paths
    /\ patch_file = NoPatchFile
    /\ run = [r \in Runs |-> Idle]
    /\ seen = [r \in Runs |-> Unseen]
    /\ call = NoCall
    /\ out = NoCall

\* The longest field of a header tried.
MaxFieldLen == 2

FieldChars == {"a", "7", "G", " ", "\n"}

Strings(chars, n) == UNION {[1..k -> {Ch(x) : x \in chars}] : k \in 0..n}

Headers ==
    {PatchHeader(base_commit, generated) :
        base_commit \in Strings(FieldChars, MaxFieldLen) \ {<<>>},
        generated \in Strings(FieldChars, MaxFieldLen)}

\* PatchHeader.parse(h.to_string())
RoundTrip(h) ==
    /\ call = NoCall
    /\ call' = [op |-> "round_trip", h |-> h]
    /\ out' = parse(to_string(h))
    /\ UNCHANGED <<source, managed, target, patch_file, run, seen>>

InitHeader == source = EmptyTree /\ target = EmptyTree /\ Quiet

NextHeader == \E h \in Headers : RoundTrip(h)

SpecHeader == InitHeader /\ [][NextHeader]_vars

\* The longest list of files given to generate_patch.
MaxFiles == 2

FileLists == UNION {[1..k -> Paths] : k \in 0..MaxFiles}

GeneratePatch(files, git, today, trouble) ==
    /\ call = NoCall
    /\ call' = [op |-> "generate_patch", files |-> files, git |-> git,
                today |-> today, trouble |-> trouble]
    /\ out' = generate_patch(source, target, files, git, today, trouble)
    /\ UNCHANGED <<source, managed, target, patch_file, run, seen>>

InitGenerate ==
    /\ source \in Trees(Paths, FileBytes)
    /\ target \in Trees(Paths, FileBytes)
    /\ Quiet

NextGenerate ==
    \E files \in FileLists, git \in GitResults, trouble \in SUBSET Paths :
        GeneratePatch(files, git, DATE_1, trouble)

SpecGenerate == InitGenerate /\ [][NextGenerate]_vars

\* The most lines of a patch text given to apply_patch.
MaxLines == 2

\* Lines: empty, blank, comments, a line that holds a '#' after a blank, text
\* that is no diff, and diffs.
PatchLines ==
    {<<>>, Str(<<" ">>), Str(<<"#">>), Str(<<"#", " ", "c">>),
     Str(<<" ", "#">>), Str(<<"g">>),
     <<Hunk(PathOrder[1], V1, V2)>>, <<Hunk(PathOrder[1], V2, V1_NUL)>>}

PatchTexts ==
    {Join(lines) : lines \in UNION {[1..k -> PatchLines] : k \in 0..MaxLines}}
    \cup {Join(lines) \o <<NL>> :
              lines \in UNION {[1..k -> PatchLines] : k \in 1..MaxLines}}

ApplyPatchCall(patch_content, dry_run) ==
    /\ call = NoCall
    /\ LET result == apply_patch(target, patch_content, dry_run)
       IN  /\ call' = [op |-> "apply_patch", patch_content |-> patch_content,
                       dry_run |-> dry_run, tree |-> target]
           /\ out' = [ok |-> result.ok, message |-> result.message,
                      tool |-> result.tool]
           /\ target' = result.tree
    /\ UNCHANGED <<source, managed, patch_file, run, seen>>

InitApply ==
    /\ source = EmptyTree
    /\ target \in Trees({PathOrder[1]}, {V1, V2})
    /\ Quiet

NextApply ==
    \E patch_content \in PatchTexts, dry_run \in BOOLEAN :
        ApplyPatchCall(patch_content, dry_run)

SpecApply == InitApply /\ [][NextApply]_vars

\* The longest text given to write_patch_file.
MaxTextLen == 3

TextChars == {"x", "#", " ", "\n", "\r"}

\* The overlay artifact before the call: none, or one of an earlier update.
StoredFiles ==
    {NoPatchFile,
     [exists |-> TRUE, text |-> to_string(PatchHeader(OLD_BASE, DATE_1))],
     [exists |-> TRUE,
      text |-> Document(PatchHeader(OLD_BASE, DATE_1),
                        <<Hunk(PathOrder[1], V1, V2)>>)]}

\* write_patch_file(target_root, content), then read_patch_file(target_root).
WriteThenRead(content) ==
    /\ call = NoCall
    /\ call' = [op |-> "write_patch_file", content |-> content,
                before |-> patch_file]
    /\ patch_file' = write_patch_file(patch_file, content)
    /\ out' = [text |-> read_patch_file(write_patch_file(patch_file, content))]
    /\ UNCHANGED <<source, managed, target, run, seen>>

InitStore ==
    /\ source = EmptyTree /\ target = EmptyTree
    /\ managed = Paths
    /\ patch_file \in StoredFiles
    /\ run = [r \in Runs |-> Idle]
    /\ seen = [r \in Runs |-> Unseen]
    /\ call = NoCall
    /\ out = NoCall

NextStore == \E content \in Strings(TextChars, MaxTextLen) : WriteThenRead(content)

SpecStore == InitStore /\ [][NextStore]_vars

----------------------------------------------------------------------------
(* Properties of the functions of patch.py                                 *)

IsHexString(text) == text # <<>> /\ \A i \in 1..Len(text) : IsHex(text[i])

NoLineBreak(text) == \A i \in 1..Len(text) : text[i] # NL

\* C7 as stated: parse(to_string(h)) is h for every header h with a
\* non-empty base_commit.
C7_RoundTripAnyHeader ==
    (call.op = "round_trip" /\ call.h.base_commit # <<>>) => out = call.h

\* C7: parse(to_string(h)) is h for every header h whose base_commit is a
\* non-empty string of the characters a-f and 0-9 and whose generated string
\* holds no line break.
C7_RoundTripHexHeader ==
    (call.op = "round_trip" /\ IsHexString(call.h.base_commit)
                            /\ NoLineBreak(call.h.generated))
        => out = call.h

\* A header with a two-character revision and a date came back from the
\* round trip.
C7_Witness ==
    /\ call.op = "round_trip"
    /\ IsHexString(call.h.base_commit) /\ Len(call.h.base_commit) > 1
    /\ NoLineBreak(call.h.generated) /\ call.h.generated # <<>>
    /\ out = call.h

\* The lines of a text, without the empty piece after a final line break.
LinesOfText(text) ==
    LET pieces == Split(text)
    IN  IF pieces[Len(pieces)] = <<>> THEN SubSeq(pieces, 1, Len(pieces) - 1)
        ELSE pieces

\* A text of at least one line, each line starting with '#'.
CommentsOnly(text) ==
    /\ LinesOfText(text) # <<>>
    /\ \A i \in 1..Len(LinesOfText(text)) : StartsWithHash(LinesOfText(text)[i])

\* C8 as stated: for a blank text and for a text of '#' lines only,
\* apply_patch returns (True, "No patch to apply"), does not run the patch
\* tool and leaves the target tree as it was.
C8_NothingToApplyOneMessage ==
    (call.op = "apply_patch"
        /\ (IsBlank(call.patch_content) \/ CommentsOnly(call.patch_content)))
        => /\ out.ok /\ out.message = "No patch to apply"
           /\ ~out.tool
           /\ target = call.tree

\* C8: for a blank text apply_patch returns (True, "No patch to apply"), for
\* a text of '#' lines only (True, "No patch to apply (comments only)"); in
\* both cases, dry run or not, it does not run the patch tool and leaves
\* the target tree as it was.
C8_NothingToApply ==
    (call.op = "apply_patch"
        /\ (IsBlank(call.patch_content) \/ CommentsOnly(call.patch_content)))
        => /\ out.ok
           /\ out.message = IF IsBlank(call.patch_content)
                            THEN "No patch to apply"
                            ELSE "No patch to apply (comments only)"
           /\ ~out.tool
           /\ target = call.tree

\* A text of two comment lines was applied, not as a dry run, to a tree that
\* holds a file.
C8_Witness ==
    /\ call.op = "apply_patch"
    /\ CommentsOnly(call.patch_content)
    /\ Len(LinesOfText(call.patch_content)) > 1
    /\ ~call.dry_run
    /\ call.tree # EmptyTree
    /\ out.message = "No patch to apply (comments only)"

IsToken(ch) == ch.c \in {"HUNK", "BINARY"}

\* The paths of the diffs of a patch text, in their order.
TokenPaths(text) ==
    LET tokens == SelectSeq(text, IsToken)
    IN  [i \in 1..Len(tokens) |-> tokens[i].path]

NoRepeat(seq) == \A i, j \in 1..Len(seq) : i # j => seq[i] # seq[j]

BytesOrEmpty(tree, path) == IF Exists(tree, path) THEN tree[path] ELSE <<>>

\* C9: the text generate_patch returns for a list of different paths, the
\* diff tool working, holds one diff for each listed path whose target copy
\* exists with bytes other than the source copy's (no source copy: no
\* bytes), in the order of the list, and no other diff.
C9_OneHunkPerChangedPath ==
    (call.op = "generate_patch" /\ ~out.raised /\ NoRepeat(call.files)
                                /\ call.trouble = {})
        => TokenPaths(out.text)
               = SelectSeq(call.files,
                           LAMBDA path :
                               /\ Exists(target, path)
                               /\ BytesOrEmpty(source, path) # target[path])

\* The positions of the list of files for which generate_patch keeps a diff.
Produced ==
    {i \in 1..Len(call.files) :
        LET path == call.files[i]
        IN  /\ Exists(target, path)
            /\ universal_newlines(BytesOrEmpty(source, path))
                   # universal_newlines(target[path])
            /\ path \notin call.trouble}

\* C10: generate_patch returns the empty text exactly when it kept no diff;
\* any other text it returns starts with the header of the first seven
\* characters of the source revision and of the date, and holds a diff after
\* the header.
C10_EmptyOrHeaded ==
    (call.op = "generate_patch" /\ ~out.raised)
        => LET h == PatchHeader(Take(Strip(call.git.stdout), ShortLen),
                                call.today)
           IN  /\ out.text = <<>> <=> Produced = {}
               /\ out.text # <<>> =>
                      /\ HasPrefixAt(out.text, 1, to_string(h))
                      /\ Len(h.base_commit) = ShortLen
                      /\ parse(out.text) = h
                      /\ SelectSeq(out.text, IsToken) # <<>>

\* generate_patch returned a document of two diffs.
C10_Witness ==
    /\ call.op = "generate_patch"
    /\ ~out.raised
    /\ Len(SelectSeq(out.text, IsToken)) = 2

\* A text without a carriage return.
NoCarriageReturn(text) == \A i \in 1..Len(text) : text[i] # Ch("\r")

\* C11 as stated: after write_patch_file(target, t) a text t that is not
\* blank is what read_patch_file returns, whatever the artifact held, and
\* the artifact exists; after a blank t there is no artifact and
\* read_patch_file returns the empty text.
C11_ReadReturnsWritten ==
    call.op = "write_patch_file" =>
        IF IsBlank(call.content)
        THEN ~patch_file.exists /\ out.text = <<>>
        ELSE patch_file.exists /\ out.text = call.content

\* C11: as C11_ReadReturnsWritten, for a text t that is not blank and holds
\* no carriage return; of any text that is not blank, read_patch_file
\* returns t with every "\r\n" and every other "\r" read as "\n".
C11_ReadReturnsWrittenText ==
    call.op = "write_patch_file" =>
        IF IsBlank(call.content)
        THEN ~patch_file.exists /\ out.text = <<>>
        ELSE /\ patch_file.exists
             /\ out.text = text_newlines(call.content)
             /\ NoCarriageReturn(call.content) => out.text = call.content

\* A text of three characters without a carriage return was written over an
\* artifact of an earlier update and read back.
C11_Witness ==
    /\ call.op = "write_patch_file"
    /\ call.before.exists
    /\ ~IsBlank(call.content) /\ NoCarriageReturn(call.content)
    /\ Len(call.content) = MaxTextLen
    /\ out.text = call.content /\ out.text # call.before.text

----------------------------------------------------------------------------
(* Properties of the phases of cmd_update                                  *)

\* The managed paths with a source copy and no copy in the tree.
ToCreate(tree) ==
    {path \in managed : Exists(source, path) /\ ~Exists(tree, path)}

\* The managed paths without a source copy that the tree holds.
RemovedUpstream(tree) ==
    {path \in managed : ~Exists(source, path) /\ Exists(tree, path)}

\* C12: when the file refresh of a call has ended, every managed path with
\* a source copy has the source's bytes in the target; every other path is as
\* before the call, existing or not; created counts the managed paths that
\* had a source copy and no target copy, updated those with different bytes
\* in the two trees (one count per copy made, so no copy of equal bytes);
\* deleted_in_source lists the managed paths the target holds without a
\* source copy.
C12_RefreshCopiesSource ==
    \A r \in Runs :
        run[r].pc = "files_refreshed" =>
            LET before == seen[r].pre_target
            IN  /\ \A path \in managed :
                       Exists(source, path) =>
                           Exists(target, path) /\ target[path] = source[path]
                /\ \A path \in DOMAIN before \cup DOMAIN target :
                       (path \notin managed \/ ~Exists(source, path)) =>
                           /\ Exists(before, path) /\ Exists(target, path)
                           /\ target[path] = before[path]
                /\ run[r].created = Cardinality(ToCreate(before))
                /\ run[r].updated
                       = Cardinality(ChangedFiles(source, before, managed))
                /\ run[r].deleted_in_source = Sorted(RemovedUpstream(before))

\* A file refresh has created one file and overwritten another.
C12_Witness ==
    \E r \in Runs :
        /\ run[r].pc = "files_refreshed"
        /\ run[r].created = 1 /\ run[r].updated = 1
        /\ target # seen[r].pre_target

\* The confirmation of call r was given: by the flag, or by a typed y or Y
\* with or without blanks around it.
SaidYes(r) ==
    \/ seen[r].confirm.by = "auto_yes"
    \/ /\ seen[r].confirm.by = "input"
       /\ seen[r].confirm.answer \in {Str(<<"y">>), Str(<<" ", "Y">>)}

\* C13: when the deletions of a call are resolved, the target tree is the
\* refreshed tree without the managed paths that have no source copy if the
\* deletion was confirmed, and the refreshed tree itself if it was refused
\* or not asked for; a deleted file is at a managed path without a source
\* copy; and a call whose deletion was refused fails only on the dry run
\* of the overlay.
C13_DeletesOnlyConfirmed ==
    \A r \in Runs :
        /\ run[r].pc = "deletions_resolved" =>
               /\ target = IF SaidYes(r)
                           THEN [path \in DOMAIN Refreshed(r)
                                           \ RemovedUpstream(Refreshed(r))
                                     |-> Refreshed(r)[path]]
                           ELSE Refreshed(r)
               /\ \A path \in DOMAIN Refreshed(r) \ DOMAIN target :
                      path \in managed /\ ~Exists(source, path) /\ SaidYes(r)
        /\ (seen[r].confirm.by = "input" /\ ~SaidYes(r)
                /\ run[r].pc = "failed") => seen[r].dry_run = "failed"

\* A refused deletion left the file in place and the call went on to
\* regenerate the overlay and return 0; the next call asked again, and the
\* typed answer " Y" removed the file.
C13_Witness ==
    /\ seen[1].confirm.by = "input" /\ ~SaidYes(1)
    /\ run[1].returned = <<0>> /\ seen[1].regenerated
    /\ run[2].pc = "deletions_resolved"
    /\ seen[2].confirm = [by |-> "input", answer |-> Str(<<" ", "Y">>)]
    /\ DOMAIN target # DOMAIN Refreshed(2)

\* The phases of a call with an overlay to reapply, and of a call without.
PhaseOrder ==
    <<"precondition_check", "conflict_check", "file_refresh",
      "deletion_resolution", "dry_run", "apply", "regeneration">>

PhaseOrderNoOverlay ==
    SelectSeq(PhaseOrder, LAMBDA phase : phase \notin {"dry_run", "apply"})

IsPrefix(seq, full) ==
    Len(seq) <= Len(full) /\ seq = SubSeq(full, 1, Len(seq))

\* The phases call r has passed are the first phases of the fixed order, none
\* twice; the target tree is as before the call until the conflict check
\* has passed; and the overlay was applied only after its dry run in the
\* same call had succeeded.
PhasesInOrder(r) ==
    /\ IsPrefix(seen[r].phases, PhaseOrder)
           \/ IsPrefix(seen[r].phases, PhaseOrderNoOverlay)
    /\ run[r].pc = "done" =>
           seen[r].phases \in {PhaseOrder, PhaseOrderNoOverlay}
    /\ (Len(seen[r].phases) \in 1..2) => target = seen[r].pre_target
    /\ seen[r].applied # "none" =>
           /\ seen[r].dry_run = "ok"
           /\ \E i \in 2..Len(seen[r].phases) :
                  seen[r].phases[i - 1] = "dry_run" /\ seen[r].phases[i] = "apply"

\* The part of C14 that holds of every call: PhasesInOrder.
PhasesAlwaysInOrder == \A r \in Runs : PhasesInOrder(r)

\* C14: every call passes through the phases in the fixed order, changes no
\* target file before the precondition check and the conflict check have
\* passed, applies the overlay only after its dry run has succeeded in the
\* same call, and ends in Done or in Failed.
C14_PhasesInOrderToDoneOrFailed ==
    \A r \in Runs :
        /\ PhasesInOrder(r)
        /\ Ended(r) => run[r].pc \in {"done", "failed"}

\* A call with an overlay has passed every phase and is done.
C14_Witness ==
    \E r \in Runs : run[r].pc = "done" /\ seen[r].phases = PhaseOrder

\* The target tree after the deletion phase of call r.
AfterDeletions(r) ==
    IF SaidYes(r) THEN DeleteLoop(Refreshed(r), run[r].deleted_in_source)
    ELSE Refreshed(r)

\* What the patch tool leaves of that tree when it applies the overlay that
\* call r read.
Reapplied(r) ==
    ApplyHunks(AfterDeletions(r), SelectSeq(run[r].existing_patch, IsHunk))

\* The real application of the overlay of call r failed after its dry run
\* had succeeded.
ApplyFailed(r) == seen[r].dry_run = "ok" /\ seen[r].applied = "failed"

\* The part of C15 that holds of every call: a failed application does not
\* end the call with 1, and the tree stays as the patch tool left it.
FailedApplyKept ==
    \A r \in Runs :
        (ApplyFailed(r) /\ LastCall(r)) =>
            /\ run[r].pc # "failed" /\ run[r].returned # <<1>>
            /\ target = Reapplied(r)
            /\ run[r].returned = <<0>> => seen[r].regenerated

\* C15: a call whose application of the overlay fails after a successful
\* dry run is not aborted and keeps the tree as the patch tool left it; it
\* goes on to regenerate the overlay and returns 0.
C15_FailedApplyReturnsSuccess ==
    \A r \in Runs :
        (ApplyFailed(r) /\ LastCall(r)) =>
            /\ run[r].pc # "failed"
            /\ target = Reapplied(r)
            /\ Ended(r) => run[r].returned = <<0>> /\ seen[r].regenerated

\* A call has returned 0 after a failed application that left a reject file
\* in the target tree.
C15_Witness ==
    \E r \in Runs :
        /\ ApplyFailed(r) /\ run[r].returned = <<0>>
        /\ \E path \in Paths : Exists(target, RejPath(path))
        /\ target # AfterDeletions(r)

----------------------------------------------------------------------------
(* Properties of generate_patch: the diff tool's exit code                 *)

\* The listed paths whose two copies differ as generate_patch reads them,
\* with read_text: the paths it runs the diff tool on.
Diffed ==
    {call.files[i] : i \in Produced}
    \cup {path \in call.trouble :
             /\ \E i \in 1..Len(call.files) : call.files[i] = path
             /\ Exists(target, path)
             /\ universal_newlines(BytesOrEmpty(source, path))
                    # universal_newlines(target[path])}

PathsOfText(text) == {TokenPaths(text)[i] : i \in 1..Len(TokenPaths(text))}

\* The part of C16 that holds: the output of a diff that ends with exit
\* code 1 is in the returned text.
DiffOutputKept ==
    (call.op = "generate_patch" /\ ~out.raised) =>
        \A path \in Diffed \ call.trouble : path \in PathsOfText(out.text)

\* C16: of the paths generate_patch runs the diff tool on, one whose diff
\* ends with exit code 1 has its diff in the returned text, and one whose
\* diff ends with another exit code makes the call end with an error.
C16_DiffErrorPropagates ==
    call.op = "generate_patch" =>
        /\ ~out.raised =>
               \A path \in Diffed \ call.trouble :
                   path \in PathsOfText(out.text)
        /\ Diffed \cap call.trouble # {} => out.raised

\* generate_patch has returned a text with the diff of one path and without
\* that of another, whose diff ended with exit code 2.
C16_Witness ==
    /\ call.op = "generate_patch" /\ ~out.raised
    /\ Diffed \cap call.trouble # {}
    /\ PathsOfText(out.text) = Diffed \ call.trouble
    /\ PathsOfText(out.text) # {}

----------------------------------------------------------------------------
(* Properties of the overlay cmd_update leaves                             *)

\* C17: the overlay artifact on disk after a call that returned 0 holds the
\* diffs of managed paths that exist in both trees with different bytes,
\* those of all of them but the ones the diff tool failed on, under a header
\* of the first seven characters of the source's revision, which is what
\* get_patch_base_commit returns, and of the day of the call: it is the text
\* generate_patch returns for the list of those paths, in some order.
C17_OverlayFromCurrentRevision ==
    \A r \in Runs :
        (run[r].returned = <<0>> /\ LastCall(r) /\ patch_file.exists) =>
            LET changed == ChangedFiles(source, target, managed)
            IN  /\ PathsOfText(patch_file.text) # {}
                /\ PathsOfText(patch_file.text) \subseteq changed
                /\ changed \ seen[r].trouble \subseteq PathsOfText(patch_file.text)
                /\ get_patch_base_commit(patch_file) = Take(HEAD_SHA, ShortLen)
                /\ parse(patch_file.text).generated = seen[r].today
                /\ \E order \in Orders(changed), git \in GitResults :
                       patch_file.text
                           = generate_patch(source, target, order, git,
                                            seen[r].today, seen[r].trouble).text

\* A call that found an overlay of an earlier revision has returned 0 and
\* left an overlay of the current revision with the diffs of two files.
C17_Witness ==
    \E r \in Runs :
        /\ run[r].returned = <<0>> /\ LastCall(r) /\ patch_file.exists
        /\ get_patch_base_commit(seen[r].pre_patch) = OLD_BASE
        /\ get_patch_base_commit(patch_file) = Take(HEAD_SHA, ShortLen)
        /\ Cardinality(PathsOfText(patch_file.text)) = 2

----------------------------------------------------------------------------
(* Properties of updates that run side by side                             *)

\* The overlay artifact is the difference of the two trees: it exists when
\* some managed path differs, and then holds the diff of each such path from
\* the source's bytes to the target's, and no other.
OverlayIsDifference ==
    LET changed == ChangedFiles(source, target, managed)
    IN  IF changed = {} THEN ~patch_file.exists
        ELSE /\ patch_file.exists
             /\ {token \in {patch_file.text[i] : i \in 1..Len(patch_file.text)} :
                     IsToken(token)}
                    = {Hunk(path, source[path], target[path]) : path \in changed}

\* C18: no call waits for another: a call can start whatever the calls
\* started before it are doing, and a call that has come to its file
\* refresh, to its deletions or to the writing of its overlay can take that
\* step whatever the other calls are doing.
C18_NoLock ==
    \A r \in Runs :
        /\ (run[r].pc = "idle" /\ \A q \in Runs : q < r => run[q].pc # "idle")
               => ENABLED StartAnyTime(r)
        /\ run[r].pc = "conflict_checked" => ENABLED RefreshFiles(r)
        /\ run[r].pc = "files_refreshed" =>
               ENABLED (\E auto_yes \in BOOLEAN, answer \in Answers :
                           ResolveDeletions(r, auto_yes, answer))
        /\ run[r].pc = "overlay_generated" => ENABLED PersistPatch(r)

\* Two calls that ran side by side, with the revision query and the diff
\* tool working, have both returned 0, and the overlay artifact is not the
\* difference of the trees: the target holds a customization and there is no
\* overlay.
C18_Witness ==
    /\ run[1].returned = <<0>> /\ run[2].returned = <<0>>
    /\ seen[2].overlapped
    /\ seen[1].trouble = {} /\ seen[2].trouble = {}
    /\ ~OverlayIsDifference
    /\ ChangedFiles(source, target, managed) # {} /\ ~patch_file.exists

----------------------------------------------------------------------------
(* The frame of cmd_update                                                 *)

\* C19: from its start on, a call leaves every path of the target tree
\* outside the managed set as it was before the call, existing or not, and
\* leaves the source tree as it was.
C19_OnlyManagedPathsChange ==
    \A r \in Runs :
        (run[r].pc # "idle" /\ LastCall(r)) =>
            /\ source = seen[r].pre_source
            /\ \A path \in (DOMAIN target \cup DOMAIN seen[r].pre_target)
                                \ managed :
                   /\ Exists(target, path) /\ Exists(seen[r].pre_target, path)
                   /\ target[path] = seen[r].pre_target[path]

\* The part of C19 that holds: until the overlay is reapplied, and in a call
\* without an overlay to reapply, only managed paths change.
OnlyManagedPathsChangeBeforeReapply ==
    \A r \in Runs :
        (run[r].pc # "idle" /\ LastCall(r) /\ seen[r].dry_run = "none") =>
            /\ source = seen[r].pre_source
            /\ \A path \in (DOMAIN target \cup DOMAIN seen[r].pre_target)
                                \ managed :
                   /\ Exists(target, path) /\ Exists(seen[r].pre_target, path)
                   /\ target[path] = seen[r].pre_target[path]

\* A call has returned 0 after the file refresh and the deletion changed
\* managed paths only, a path outside the managed set being in the tree.
C19_Witness ==
    \E r \in Runs :
        /\ run[r].returned = <<0>> /\ seen[r].dry_run = "none"
        /\ target # seen[r].pre_target
        /\ DOMAIN seen[r].pre_target \ managed # {}

\* Call r found no overlay artifact, or a blank one.
NoOverlayBefore(r) ==
    ~seen[r].pre_patch.exists \/ IsBlank(seen[r].pre_patch.text)

\* C20: after a call that found no overlay, or a blank one, and returned 0,
\* every managed path with a source copy has the source's bytes in the
\* target tree, whatever the target held before, and there is no overlay
\* artifact.
C20_UncapturedEditsDiscarded ==
    \A r \in Runs :
        (run[r].returned = <<0>> /\ LastCall(r) /\ NoOverlayBefore(r)) =>
            /\ \A path \in managed :
                   Exists(source, path) =>
                       Exists(target, path) /\ target[path] = source[path]
            /\ ~patch_file.exists

\* A call that found a blank overlay artifact and a managed file with bytes
\* other than the source's has returned 0.
C20_Witness ==
    \E r \in Runs :
        /\ run[r].returned = <<0>> /\ LastCall(r)
        /\ seen[r].pre_patch.exists /\ IsBlank(seen[r].pre_patch.text)
        /\ ChangedFiles(source, seen[r].pre_target, managed) # {}

====
